---- MODULE Spec2Model ----
(***************************************************************************)
(* Model of the rest package: route registration and dispatch wrapper      *)
(* (router.go), the path matcher (router.go match), the instrumented       *)
(* response writer (LogResponseWriter) and the response / error            *)
(* normalisation (response.go).                                            *)
(*                                                                         *)
(* Strings that the code splits or indexes (request paths, route patterns) *)
(* are tuples of one-character strings.  A JSON body is the tuple of its   *)
(* <<key, value>> members in encoding order; byte counts are counted in    *)
(* members.                                                                *)
(***************************************************************************)
EXTENDS Integers, Sequences, FiniteSets, TLC

VARIABLES rr, req, cur, w, pc, log, invoked, call

vars == <<rr, req, cur, w, pc, log, invoked, call>>

\* ---------------------------------------------------------------- bounds
MaxHandlerCalls == 2
MaxAccept == 4
MaxRawLen == 2

\* ------------------------------------------------------- response headers
HeaderNames ==
    {"Content-Type", "Accept", "Location", "Strict-Transport-Security",
     "Access-Control-Allow-Origin", "Access-Control-Allow-Headers",
     "Access-Control-Allow-Methods", "X-Content-Type-Options",
     "X-Frame-Options", "X-XSS-Protection"}

NoHeader == [k \in HeaderNames |-> <<>>]

HeaderSet(h, k, v) == [h EXCEPT ![k] = <<v>>]

HeaderAdd(h, k, v) == [h EXCEPT ![k] = Append(@, v)]

\* ------------------------------------------------------------ the errors
NilErr == [id |-> "nil", text |-> ""]
ErrBadRequest == [id |-> "ErrBadRequest", text |-> "400"]
ErrUnauthorized == [id |-> "ErrUnauthorized", text |-> "401"]
ErrNotFound == [id |-> "ErrNotFound", text |-> "404"]
ErrConflict == [id |-> "ErrConflict", text |-> "409"]
ErrUnprocessableEntity == [id |-> "ErrUnprocessableEntity", text |-> "422"]

Sentinels ==
    {ErrBadRequest, ErrUnauthorized, ErrNotFound, ErrConflict, ErrUnprocessableEntity}

\* error values a handler can build itself: they are compared by identity, so
\* one with the text of a sentinel is still not that sentinel
OtherErrs ==
    {[id |-> "e1", text |-> "boom"], [id |-> "e2", text |-> "409"],
     [id |-> "e3", text |-> ""]}

Errs == {NilErr} \cup Sentinels \cup OtherErrs

\* ------------------------------------------------------- the JSON encoding
StatusText(code) ==
    CASE code = 200 -> "OK"
      [] code = 201 -> "Created"
      [] code = 400 -> "Bad Request"
      [] code = 401 -> "Unauthorized"
      [] code = 403 -> "Forbidden"
      [] code = 404 -> "Not Found"
      [] code = 405 -> "Method Not Allowed"
      [] code = 409 -> "Conflict"
      [] code = 422 -> "Unprocessable Entity"
      [] code = 500 -> "Internal Server Error"
      [] OTHER -> ""

\* the decimal text of a status, as the encoder prints an int
Itoa(code) ==
    CASE code = 200 -> "200"
      [] code = 201 -> "201"
      [] code = 400 -> "400"
      [] code = 401 -> "401"
      [] code = 403 -> "403"
      [] code = 404 -> "404"
      [] code = 405 -> "405"
      [] code = 409 -> "409"
      [] code = 422 -> "422"
      [] code = 500 -> "500"
      [] OTHER -> "0"

NoValidationErrors == <<>>

ValidationErrorsSet == {NoValidationErrors, <<<<"field", "msg">>>>}

\* a map[string]string printed as one JSON object
EncodeMap(m) == IF Len(m) = 0 THEN "{}" ELSE "{field:msg}"

HTTPErrorStatus(code, message, reason, validationErrors) ==
    [Code |-> code, Message |-> message, Reason |-> reason,
     ValidationErrors |-> validationErrors]

\* the struct tags of HTTPErrorStatus: reason and validation_errors are omitempty
EncodeHTTPErrorStatus(e) ==
    <<  <<"code", Itoa(e.Code)>>, <<"message", e.Message>> >>
    \o (IF e.Reason # "" THEN << <<"reason", e.Reason>> >> ELSE <<>>)
    \o (IF Len(e.ValidationErrors) > 0
        THEN << <<"validation_errors", EncodeMap(e.ValidationErrors)>> >>
        ELSE <<>>)

NilPayload == <<>>

Payloads == {NilPayload, << <<"id", "42">> >>}

\* a success payload is serialised as it is, without an envelope
EncodePayload(v) == v

\* ------------------------------------------------- the response writers
\* w is the response sink of one request together with the LogResponseWriter
\* that may wrap it: hdr and calls belong to the sink (calls is what the sink
\* received, a WriteHeader with the headers as they were then), status, size
\* and lrwCalls (the calls made on the wrapper and what they returned) to the
\* wrapper.
NoCallArg == <<>>

FreshWriter ==
    [hdr |-> NoHeader, calls |-> <<>>, wrapped |-> FALSE,
     status |-> 0, size |-> 0, lrwCalls |-> <<>>]

NewLogResponseWriter(ws) ==
    [ws EXCEPT !.wrapped = TRUE, !.status = 0, !.size = 0, !.lrwCalls = <<>>]

Min(a, b) == IF a < b THEN a ELSE b

\* what the sink answers to Write(p) when it accepts at most accept members
SinkResult(p, accept) ==
    [n |-> Min(Len(p), accept), err |-> accept < Len(p)]

SinkWriteHeader(ws, code) ==
    [ws EXCEPT !.calls = Append(@, [op |-> "WriteHeader", code |-> code,
                                    hdr |-> ws.hdr, p |-> NoCallArg,
                                    n |-> 0, err |-> FALSE])]

SinkWrite(ws, p, accept) ==
    [ws EXCEPT !.calls = Append(@, [op |-> "Write", code |-> 0,
                                    hdr |-> NoHeader, p |-> p,
                                    n |-> SinkResult(p, accept).n,
                                    err |-> SinkResult(p, accept).err])]

Status(ws) == ws.status

Size(ws) == ws.size

LRWWriteHeader(ws, statusCode) ==
    [SinkWriteHeader(ws, statusCode) EXCEPT
        !.status = statusCode,
        !.lrwCalls = Append(@, [op |-> "WriteHeader", code |-> statusCode,
                                p |-> NoCallArg, n |-> 0, err |-> FALSE])]

LRWWriteCountsLen(ws, p, accept) ==
    [SinkWrite(ws, p, accept) EXCEPT
        !.size = @ + Len(p),
        !.lrwCalls = Append(@, [op |-> "Write", code |-> 0, p |-> p,
                                n |-> SinkResult(p, accept).n,
                                err |-> SinkResult(p, accept).err])]

LRWWrite(ws, p, accept) ==
    [SinkWrite(ws, p, accept) EXCEPT
        !.size = @ + SinkResult(p, accept).n,
        !.lrwCalls = Append(@, [op |-> "Write", code |-> 0, p |-> p,
                                n |-> SinkResult(p, accept).n,
                                err |-> SinkResult(p, accept).err])]

\* the http.ResponseWriter interface: the call goes to the wrapper when the
\* value behind it is a *LogResponseWriter, to the sink otherwise
WriteHeader(ws, code) ==
    IF ws.wrapped THEN LRWWriteHeader(ws, code) ELSE SinkWriteHeader(ws, code)

Write(ws, p, accept) ==
    IF ws.wrapped THEN LRWWrite(ws, p, accept) ELSE SinkWrite(ws, p, accept)

\* json.NewEncoder(w).Encode(v): one Write of the encoding, its error dropped
Encode(ws, p, accept) == Write(ws, p, accept)

\* ------------------------------------------------------------ response.go
ErrorResponseNoReason(ws, status, reason, accept) ==
    [w |-> Encode(WriteHeader(ws, status),
                  EncodeHTTPErrorStatus(
                      HTTPErrorStatus(status, StatusText(status), "", NoValidationErrors)),
                  accept),
     ret |-> status]

ErrorResponse(ws, status, reason, accept) ==
    [w |-> Encode(WriteHeader(ws, status),
                  EncodeHTTPErrorStatus(
                      HTTPErrorStatus(status, StatusText(status), reason, NoValidationErrors)),
                  accept),
     ret |-> status]

ResponseHeaders(ws) ==
    [ws EXCEPT !.hdr = HeaderSet(HeaderSet(@, "Content-Type",
                                           "application/json; charset=utf-8"),
                                 "Accept", "application/json")]

ResponseAlwaysLocation(ws, response, err, desiredStatus, location, accept) ==
    LET w1 == ResponseHeaders(ws)
        w2 == [w1 EXCEPT !.hdr = HeaderSet(@, "Location", location)]
        w3 == WriteHeader(w2, desiredStatus)
    IN  CASE err = NilErr ->
               [w |-> IF response # NilPayload
                      THEN Encode(w3, EncodePayload(response), accept) ELSE w3,
                ret |-> desiredStatus]
          [] err = ErrConflict -> ErrorResponse(w1, 409, "", accept)
          [] err = ErrBadRequest -> ErrorResponse(w1, 400, "", accept)
          [] err = ErrUnauthorized -> ErrorResponse(w1, 401, "", accept)
          [] OTHER -> ErrorResponse(w1, 500, err.text, accept)

Response(ws, response, err, desiredStatus, location, accept) ==
    LET w1 == ResponseHeaders(ws)
        w2 == IF location # ""
              THEN [w1 EXCEPT !.hdr = HeaderSet(@, "Location", location)]
              ELSE w1
        w3 == WriteHeader(w2, desiredStatus)
    IN  CASE err = NilErr ->
               [w |-> IF response # NilPayload
                      THEN Encode(w3, EncodePayload(response), accept) ELSE w3,
                ret |-> desiredStatus]
          [] err = ErrConflict -> ErrorResponse(w1, 409, "", accept)
          [] err = ErrBadRequest -> ErrorResponse(w1, 400, "", accept)
          [] err = ErrUnauthorized -> ErrorResponse(w1, 401, "", accept)
          [] OTHER -> ErrorResponse(w1, 500, err.text, accept)

ResponseErr(ws, err, accept) == Response(ws, NilPayload, err, 200, "", accept)

NotFound(ws, accept) == ErrorResponse(ws, 404, "", accept)

NotAllowed(ws, accept) == ErrorResponse(ws, 405, "", accept)

BadRequest(ws, reason, accept) == ErrorResponse(ws, 400, reason, accept)

BadRequestValidation(ws, reason, validationErrors, accept) ==
    [w |-> Encode(WriteHeader(ws, 400),
                  EncodeHTTPErrorStatus(
                      HTTPErrorStatus(400, StatusText(400), reason, validationErrors)),
                  accept),
     ret |-> 400]

Forbidden(ws, reason, accept) == ErrorResponse(ws, 403, reason, accept)

Unauthorized(ws, accept) == ErrorResponse(ws, 401, "", accept)

\* ------------------------------------------------------------- strings
\* strings.Split(s, sep) for a one-character separator
RECURSIVE Split(_, _)
Split(s, sep) ==
    IF \A i \in 1..Len(s) : s[i] # sep
    THEN <<s>>
    ELSE LET k == CHOOSE i \in 1..Len(s) :
                      s[i] = sep /\ \A j \in 1..(i - 1) : s[j] # sep
         IN  <<SubSeq(s, 1, k - 1)>> \o Split(SubSeq(s, k + 1, Len(s)), sep)

\* strings.Join(list, sep), the result as the tuple of its pieces
RECURSIVE Join(_, _)
Join(list, sep) ==
    IF Len(list) = 0 THEN <<>>
    ELSE IF Len(list) = 1 THEN <<list[1]>>
    ELSE <<list[1], sep>> \o Join(Tail(list), sep)

Digits == {"0", "1", "2", "3", "4", "5", "6", "7", "8", "9"}

PatNumeric == "^[0-9]+$"
PatItems == "^items$"
PatInvalid == "("

\* regexp.MatchString(pattern, s) for the patterns the routes below use
MatchString(pattern, s) ==
    CASE pattern = PatNumeric ->
           [matched |-> Len(s) > 0 /\ \A i \in 1..Len(s) : s[i] \in Digits,
            err |-> FALSE]
      [] pattern = PatItems ->
           [matched |-> s = <<"i", "t", "e", "m", "s">>, err |-> FALSE]
      [] pattern = PatInvalid -> [matched |-> FALSE, err |-> TRUE]
      [] OTHER -> [matched |-> TRUE, err |-> FALSE]

\* ------------------------------------------------------ router.go: match
\* The result is "true", "false", or "fault" for the index-out-of-range panic
\* of routeParts[i+1].  Go counts i and the parts from 0, the tuples here
\* from 1: matcher[k] is m at i = k - 1 and routeParts[k + 1] is part i + 1.
RECURSIVE matchLoopSkipsPrefix(_, _, _)
matchLoopSkipsPrefix(matcher, routeParts, k) ==
    IF k > Len(matcher) THEN "true"
    ELSE IF matcher[k] # "" /\ matcher[k] # ".*"
    THEN IF k + 2 > Len(routeParts) THEN "fault"
         ELSE IF MatchString(matcher[k], routeParts[k + 2]).err
                 \/ ~MatchString(matcher[k], routeParts[k + 2]).matched
         THEN "false"
         ELSE matchLoopSkipsPrefix(matcher, routeParts, k + 1)
    ELSE matchLoopSkipsPrefix(matcher, routeParts, k + 1)

matchSkipsPrefix(route, matcher, path) ==
    IF Len(matcher) = 0 THEN "true"
    ELSE matchLoopSkipsPrefix(matcher, Split(path, "/"), 1)

RECURSIVE matchLoopGuarded(_, _, _)
matchLoopGuarded(matcher, routeParts, k) ==
    IF k > Len(matcher) THEN "true"
    ELSE IF matcher[k] # "" /\ matcher[k] # ".*"
    THEN IF k + 1 > Len(routeParts) THEN "false"
         ELSE IF MatchString(matcher[k], routeParts[k + 1]).err
                 \/ ~MatchString(matcher[k], routeParts[k + 1]).matched
         THEN "false"
         ELSE matchLoopGuarded(matcher, routeParts, k + 1)
    ELSE matchLoopGuarded(matcher, routeParts, k + 1)

matchGuarded(route, matcher, path) ==
    IF Len(matcher) = 0 THEN "true"
    ELSE matchLoopGuarded(matcher, Split(path, "/"), 1)

RECURSIVE matchLoop(_, _, _)
matchLoop(matcher, routeParts, k) ==
    IF k > Len(matcher) THEN "true"
    ELSE IF matcher[k] # "" /\ matcher[k] # ".*"
    THEN IF k + 1 > Len(routeParts) THEN "fault"
         ELSE IF MatchString(matcher[k], routeParts[k + 1]).err
                 \/ ~MatchString(matcher[k], routeParts[k + 1]).matched
         THEN "false"
         ELSE matchLoop(matcher, routeParts, k + 1)
    ELSE matchLoop(matcher, routeParts, k + 1)

match(route, matcher, path) ==
    IF Len(matcher) = 0 THEN "true"
    ELSE matchLoop(matcher, Split(path, "/"), 1)

\* --------------------------------------------- router.go: SetupRouter
\* routes is the map method -> route -> endpoint; order is the order in which
\* the range over routes yields the methods (any order: Go map iteration).
RECURSIVE optionsMappingsOverwrite(_, _, _)
optionsMappingsOverwrite(routes, order, om) ==
    IF Len(order) = 0 THEN om
    ELSE LET method == Head(order)
             rs == DOMAIN routes[method]
         IN  optionsMappingsOverwrite(routes, Tail(order),
                 [route \in DOMAIN om \cup rs |->
                     IF route \in rs THEN <<method>> ELSE om[route]])

RECURSIVE optionsMappingsLoop(_, _, _)
optionsMappingsLoop(routes, order, om) ==
    IF Len(order) = 0 THEN om
    ELSE LET method == Head(order)
             rs == DOMAIN routes[method]
         IN  optionsMappingsLoop(routes, Tail(order),
                 [route \in DOMAIN om \cup rs |->
                     IF route \in rs
                     THEN IF route \in DOMAIN om
                          THEN Append(om[route], method)
                          ELSE <<method>>
                     ELSE om[route]])

\* the handlers the two loops hand to router.Handle: a wrapper per
\* (method, route) and an OPTIONS handler per key of optionsMappings
RouterHandlers(routes, om) ==
    UNION {{[method |-> m, route |-> r, kind |-> "wrapper",
             matcher |-> routes[m][r].Matcher] : r \in DOMAIN routes[m]} :
           m \in DOMAIN routes}
    \cup {[method |-> "OPTIONS", route |-> r, kind |-> "options",
           matcher |-> <<>>] : r \in DOMAIN om}

NoMappings == <<>>

\* writeHeaders: the value of Access-Control-Allow-Methods is
\* fmt.Sprintf("OPTIONS, %s", strings.Join(rr.optionsMappings[route], ", ")),
\* kept as the tuple of its pieces
AllowMethods(om, route) ==
    <<"OPTIONS", ", ">> \o Join(IF route \in DOMAIN om THEN om[route] ELSE <<>>, ", ")

writeHeadersNone(rrv, ws, route) == ws

writeHeaders(rrv, ws, route) ==
    [ws EXCEPT !.hdr =
        HeaderAdd(HeaderAdd(HeaderAdd(HeaderAdd(HeaderAdd(HeaderAdd(@,
            "Access-Control-Allow-Origin", "*"),
            "Access-Control-Allow-Headers",
            "Origin, X-Requested-With, Content-Type, Accept, X-Session-Token"),
            "Access-Control-Allow-Methods", AllowMethods(rrv.optionsMappings, route)),
            "X-Content-Type-Options", "nosniff"),
            "X-Frame-Options", "DENY"),
            "X-XSS-Protection", "1; mode=block")]

\* REST.log: one record for the logger, at error or info severity
LogAlwaysInfo(lg, isErr, msg, method, route, uri, httpErrorCode, size) ==
    Append(lg, [level |-> "info", msg |-> msg, method |-> method, uri |-> uri,
                code |-> httpErrorCode, size |-> size])

Log(lg, isErr, msg, method, route, uri, httpErrorCode, size) ==
    Append(lg, [level |-> IF isErr THEN "error" ELSE "info", msg |-> msg,
                method |-> method, uri |-> uri,
                code |-> httpErrorCode, size |-> size])

StrictTransportSecurity(rrv, ws) ==
    IF rrv.tls
    THEN [ws EXCEPT !.hdr = HeaderAdd(@, "Strict-Transport-Security",
                                      "max-age=31536000; includeSubDomains")]
    ELSE ws

\* the dispatch wrapper up to the call of the registered handler
Wrapper(rrv, e, path, accept) ==
    LET w1 == StrictTransportSecurity(rrv, FreshWriter)
        m == match(e.route, e.matcher, path)
    IN  CASE m = "fault" ->
               [w |-> w1, pc |-> "fault", log |-> <<>>, invoked |-> 0]
          [] m = "true" ->
               [w |-> writeHeaders(rrv, NewLogResponseWriter(w1), e.route),
                pc |-> "handler", log |-> <<>>, invoked |-> 1]
          [] OTHER ->
               [w |-> BadRequest(w1, "route does not match", accept).w,
                pc |-> "done",
                log |-> Log(<<>>, TRUE, "hit", e.method, e.route, path, 400, 0),
                invoked |-> 0]

\* the dispatch wrapper after the registered handler has returned
WrapperLog(lg, e, path, ws) ==
    Log(lg, FALSE, "hit", e.method, e.route, path, Status(ws), Size(ws))

\* the synthesized OPTIONS handler
OptionsWrapper(rrv, e, path) ==
    LET w1 == StrictTransportSecurity(rrv, FreshWriter)
        ww == WriteHeader(writeHeaders(rrv, NewLogResponseWriter(w1), e.route), 200)
    IN  [w |-> ww,
         log |-> Log(<<>>, FALSE, "hit", "OPTIONS", e.route, path, Status(ww), Size(ww))]

\* router.NotFound and router.MethodNotAllowed
StatusHandler(method, path, status, accept) ==
    [w |-> ErrorResponse(FreshWriter, status, "", accept).w,
     log |-> Log(<<>>, FALSE, "hit", method, path, path, status, 0)]

\* ------------------------------------------------ the requests and routes
RouteItems == <<"/", "i", "t", "e", "m", "s">>
RouteItemsId == RouteItems \o <<"/", ":", "i", "d">>

RouteSet == {RouteItems, RouteItemsId}

Methods == {"GET", "PUT"}

RequestMethods == {"GET", "PUT", "DELETE", "OPTIONS"}

PathItems42 == RouteItems \o <<"/", "4", "2">>
PathItemsAbc == RouteItems \o <<"/", "a", "b", "c">>

RequestPaths == {RouteItems, PathItems42, PathItemsAbc, <<"/", "o", "t", "h", "e", "r">>}

MatcherSet ==
    {<<>>, <<PatNumeric>>, <<"", PatNumeric>>, <<PatItems>>,
     <<PatNumeric, PatNumeric>>, <<"", ".*", "">>, <<"", "", PatNumeric>>,
     <<PatInvalid>>}

\* the route maps handed to SetupRouter: any set of (method, route) pairs,
\* the endpoints of one map sharing their matcher
RouteMap(pairs, matcher) ==
    [m \in {p[1] : p \in pairs} |->
        [r \in {p[2] : p \in {q \in pairs : q[1] = m}} |-> [Matcher |-> matcher]]]

RouteMaps ==
    {RouteMap(pairs, matcher) :
        pairs \in SUBSET (Methods \X RouteSet), matcher \in MatcherSet}

Orders(S) ==
    {o \in [1..Cardinality(S) -> S] : \A i, j \in 1..Cardinality(S) : o[i] = o[j] => i = j}

\* httprouter: a route segment that starts with ':' takes any non-empty
\* segment, any other segment only itself
RouteMatches(route, path) ==
    LET rp == Split(route, "/")
        pp == Split(path, "/")
    IN  /\ Len(rp) = Len(pp)
        /\ \A i \in 1..Len(rp) :
              IF Len(rp[i]) > 0 /\ rp[i][1] = ":"
              THEN Len(pp[i]) > 0
              ELSE rp[i] = pp[i]

Lookup(router, method, path) ==
    {e \in router : e.method = method /\ RouteMatches(e.route, path)}

\* the methods other than the requested one (and OPTIONS) that have the path
Allowed(router, method, path) ==
    {e.method : e \in {x \in router : /\ x.method # method
                                      /\ x.method # "OPTIONS"
                                      /\ RouteMatches(x.route, path)}}

\* ------------------------------------------------------------ the state
NoReq == [method |-> "", path |-> <<>>]

NoEntry == [method |-> "", route |-> <<>>, kind |-> "none", matcher |-> <<>>]

NoCall ==
    [fn |-> "none", response |-> NilPayload, err |-> NilErr, desiredStatus |-> 0,
     location |-> "", reason |-> "", validationErrors |-> NoValidationErrors,
     ret |-> 0, hdr0 |-> NoHeader]

Serving == {"idle"}

\* the REST value New returns
Init ==
    /\ rr = [optionsMappings |-> NoMappings, router |-> {}, tls |-> FALSE]
    /\ req = NoReq
    /\ cur = NoEntry
    /\ w = FreshWriter
    /\ pc = "new"
    /\ log = <<>>
    /\ invoked = 0
    /\ call = NoCall

SetupRouter(routes, order) ==
    /\ pc = "new"
    /\ rr' = [rr EXCEPT
                !.optionsMappings = optionsMappingsLoop(routes, order, NoMappings),
                !.router = RouterHandlers(routes,
                               optionsMappingsLoop(routes, order, NoMappings))]
    /\ pc' = "setup"
    /\ UNCHANGED <<req, cur, w, log, invoked, call>>

\* Start: rr.tls is set when the three certificate inputs are non-empty
Start(certs) ==
    /\ pc = "setup"
    /\ rr' = [rr EXCEPT !.tls = certs]
    /\ pc' = "idle"
    /\ UNCHANGED <<req, cur, w, log, invoked, call>>

\* a request that the router hands to the wrapper of a registered route
ServeRoute(method, path, accept) ==
    /\ pc \in Serving
    /\ \E e \in Lookup(rr.router, method, path) :
          /\ e.kind = "wrapper"
          /\ req' = [method |-> method, path |-> path]
          /\ cur' = e
          /\ w' = Wrapper(rr, e, path, accept).w
          /\ pc' = Wrapper(rr, e, path, accept).pc
          /\ log' = Wrapper(rr, e, path, accept).log
          /\ invoked' = Wrapper(rr, e, path, accept).invoked
    /\ UNCHANGED <<rr, call>>

\* the registered handler sets the status on the writer it was given
HandlerWriteHeader(code) ==
    /\ pc = "handler"
    /\ Len(w.lrwCalls) < MaxHandlerCalls
    /\ w' = WriteHeader(w, code)
    /\ UNCHANGED <<rr, req, cur, pc, log, invoked, call>>

RawBytes(n) == [i \in 1..n |-> <<"byte", "x">>]

\* the registered handler writes n bytes of body to the writer it was given
HandlerWrite(n, accept) ==
    /\ pc = "handler"
    /\ Len(w.lrwCalls) < MaxHandlerCalls
    /\ w' = Write(w, RawBytes(n), accept)
    /\ UNCHANGED <<rr, req, cur, pc, log, invoked, call>>

\* the registered handler returns and the wrapper writes the access log
HandlerReturn ==
    /\ pc = "handler"
    /\ log' = WrapperLog(log, cur, req.path, w)
    /\ pc' = "done"
    /\ UNCHANGED <<rr, req, cur, w, invoked, call>>

ServeOptions(path) ==
    /\ pc \in Serving
    /\ \E e \in Lookup(rr.router, "OPTIONS", path) :
          /\ e.kind = "options"
          /\ req' = [method |-> "OPTIONS", path |-> path]
          /\ cur' = e
          /\ w' = OptionsWrapper(rr, e, path).w
          /\ log' = OptionsWrapper(rr, e, path).log
    /\ pc' = "done"
    /\ invoked' = 0
    /\ UNCHANGED <<rr, call>>

ServeNotFound(method, path, accept) ==
    /\ pc \in Serving
    /\ Lookup(rr.router, method, path) = {}
    /\ method = "OPTIONS" \/ Allowed(rr.router, method, path) = {}
    /\ req' = [method |-> method, path |-> path]
    /\ cur' = [method |-> method, route |-> path, kind |-> "notfound", matcher |-> <<>>]
    /\ w' = StatusHandler(method, path, 404, accept).w
    /\ log' = StatusHandler(method, path, 404, accept).log
    /\ pc' = "done"
    /\ invoked' = 0
    /\ UNCHANGED <<rr, call>>

ServeNotAllowed(method, path, accept) ==
    /\ pc \in Serving
    /\ Lookup(rr.router, method, path) = {}
    /\ method # "OPTIONS"
    /\ Allowed(rr.router, method, path) # {}
    /\ req' = [method |-> method, path |-> path]
    /\ cur' = [method |-> method, route |-> path, kind |-> "notallowed", matcher |-> <<>>]
    /\ w' = StatusHandler(method, path, 405, accept).w
    /\ log' = StatusHandler(method, path, 405, accept).log
    /\ pc' = "done"
    /\ invoked' = 0
    /\ UNCHANGED <<rr, call>>

\* the request is over (the handler returned, or net/http recovered its
\* panic): nothing of it is kept for the next one
Finish ==
    /\ pc \in {"done", "fault"}
    /\ req' = NoReq
    /\ cur' = NoEntry
    /\ w' = FreshWriter
    /\ log' = <<>>
    /\ invoked' = 0
    /\ pc' = "idle"
    /\ UNCHANGED <<rr, call>>

Accepts == 0..MaxAccept

Next ==
    \/ \E routes \in RouteMaps : \E order \in Orders(DOMAIN routes) :
          SetupRouter(routes, order)
    \/ \E certs \in BOOLEAN : Start(certs)
    \/ \E method \in RequestMethods, path \in RequestPaths, accept \in Accepts :
          ServeRoute(method, path, accept)
    \/ \E code \in {200, 404} : HandlerWriteHeader(code)
    \/ \E n \in 1..MaxRawLen, accept \in Accepts : HandlerWrite(n, accept)
    \/ HandlerReturn
    \/ Finish
    \/ \E path \in RequestPaths : ServeOptions(path)
    \/ \E method \in RequestMethods, path \in RequestPaths, accept \in Accepts :
          ServeNotFound(method, path, accept)
    \/ \E method \in RequestMethods, path \in RequestPaths, accept \in Accepts :
          ServeNotAllowed(method, path, accept)

Spec == Init /\ [][Next]_vars

\* ------------------------------------- the responders called on their own
\* A caller (a handler, a test) calls one function of response.go on a writer
\* nothing was written to: the sink itself or a LogResponseWriter around it.
InitResponse ==
    /\ rr = [optionsMappings |-> NoMappings, router |-> {}, tls |-> FALSE]
    /\ req = NoReq
    /\ cur = NoEntry
    /\ w \in {FreshWriter, NewLogResponseWriter(FreshWriter)}
    /\ pc = "idle"
    /\ log = <<>>
    /\ invoked = 0
    /\ call = NoCall

Called(fn, response, err, desiredStatus, location, reason, validationErrors, r) ==
    /\ w' = r.w
    /\ call' = [fn |-> fn, response |-> response, err |-> err,
                desiredStatus |-> desiredStatus, location |-> location,
                reason |-> reason, validationErrors |-> validationErrors,
                ret |-> r.ret, hdr0 |-> w.hdr]
    /\ pc' = "done"
    /\ UNCHANGED <<rr, req, cur, log, invoked>>

CallResponse(response, err, desiredStatus, location, accept) ==
    /\ pc = "idle"
    /\ Called("Response", response, err, desiredStatus, location, "",
              NoValidationErrors,
              Response(w, response, err, desiredStatus, location, accept))

CallResponseErr(err, accept) ==
    /\ pc = "idle"
    /\ Called("ResponseErr", NilPayload, err, 200, "", "", NoValidationErrors,
              ResponseErr(w, err, accept))

CallNotFound(accept) ==
    /\ pc = "idle"
    /\ Called("NotFound", NilPayload, NilErr, 0, "", "", NoValidationErrors,
              NotFound(w, accept))

CallNotAllowed(accept) ==
    /\ pc = "idle"
    /\ Called("NotAllowed", NilPayload, NilErr, 0, "", "", NoValidationErrors,
              NotAllowed(w, accept))

CallBadRequest(reason, accept) ==
    /\ pc = "idle"
    /\ Called("BadRequest", NilPayload, NilErr, 0, "", reason, NoValidationErrors,
              BadRequest(w, reason, accept))

CallBadRequestValidation(reason, validationErrors, accept) ==
    /\ pc = "idle"
    /\ Called("BadRequestValidation", NilPayload, NilErr, 0, "", reason,
              validationErrors,
              BadRequestValidation(w, reason, validationErrors, accept))

CallForbidden(reason, accept) ==
    /\ pc = "idle"
    /\ Called("Forbidden", NilPayload, NilErr, 0, "", reason, NoValidationErrors,
              Forbidden(w, reason, accept))

CallUnauthorized(accept) ==
    /\ pc = "idle"
    /\ Called("Unauthorized", NilPayload, NilErr, 0, "", "", NoValidationErrors,
              Unauthorized(w, accept))

CallErrorResponse(status, reason, accept) ==
    /\ pc = "idle"
    /\ Called("ErrorResponse", NilPayload, NilErr, status, "", reason,
              NoValidationErrors, ErrorResponse(w, status, reason, accept))

Reasons == {"", "X"}

Locations == {"", "/items/42"}

SuccessStatuses == {200, 201}

ErrorStatuses == {400, 401, 403, 404, 405, 409, 422, 500}

NextResponse ==
    \/ \E response \in Payloads, err \in Errs, desiredStatus \in SuccessStatuses,
          location \in Locations, accept \in Accepts :
          CallResponse(response, err, desiredStatus, location, accept)
    \/ \E err \in Errs, accept \in Accepts : CallResponseErr(err, accept)
    \/ \E accept \in Accepts : CallNotFound(accept)
    \/ \E accept \in Accepts : CallNotAllowed(accept)
    \/ \E reason \in Reasons, accept \in Accepts : CallBadRequest(reason, accept)
    \/ \E reason \in Reasons, validationErrors \in ValidationErrorsSet,
          accept \in Accepts :
          CallBadRequestValidation(reason, validationErrors, accept)
    \/ \E reason \in Reasons, accept \in Accepts : CallForbidden(reason, accept)
    \/ \E accept \in Accepts : CallUnauthorized(accept)
    \/ \E status \in ErrorStatuses, reason \in Reasons, accept \in Accepts :
          CallErrorResponse(status, reason, accept)

SpecResponse == InitResponse /\ [][NextResponse]_vars

\* ------------------------------------------------------------ properties
HeaderCalls(ws) == SelectSeq(ws.calls, LAMBDA c : c.op = "WriteHeader")

BodyCalls(ws) == SelectSeq(ws.calls, LAMBDA c : c.op = "Write")

Has(p, key) == \E i \in 1..Len(p) : p[i][1] = key

Field(p, key) ==
    IF Has(p, key) THEN p[CHOOSE i \in 1..Len(p) : p[i][1] = key][2] ELSE ""

JSONContentType == <<"application/json; charset=utf-8">>

RouteDoesNotMatch == "route does not match"

ClaimedStatus(err) ==
    CASE err = ErrBadRequest -> 400
      [] err = ErrUnauthorized -> 401
      [] err = ErrNotFound -> 404
      [] err = ErrConflict -> 409
      [] err = ErrUnprocessableEntity -> 422
      [] OTHER -> 0

\* one status followed by one error envelope without validation errors
WroteEnvelope(ws, code, reason) ==
    /\ Len(ws.calls) = 2
    /\ ws.calls[1].op = "WriteHeader"
    /\ ws.calls[1].code = code
    /\ ws.calls[2].op = "Write"
    /\ Has(ws.calls[2].p, "code")
    /\ Field(ws.calls[2].p, "code") = Itoa(code)
    /\ Field(ws.calls[2].p, "message") = StatusText(code)
    /\ Field(ws.calls[2].p, "reason") = reason
    /\ ~Has(ws.calls[2].p, "validation_errors")

\* C1: a call of Response with one of the five sentinel errors writes and
\* returns the sentinel's status (400, 401, 404, 409, 422) and the body is the
\* error envelope with that code, the canonical status text and no reason.
C1_SentinelStatus ==
    (pc = "done" /\ call.fn = "Response" /\ call.err \in Sentinels) =>
        /\ call.ret = ClaimedStatus(call.err)
        /\ WroteEnvelope(w, ClaimedStatus(call.err), "")
        /\ ~Has(w.calls[2].p, "reason")

\* C4: a call of Response with a non-nil error that is not a sentinel writes
\* and returns 500, and the envelope has code 500, message "Internal Server
\* Error" and the error's text as reason, whatever the payload.
C4_UnknownError ==
    (pc = "done" /\ call.fn = "Response" /\ call.err \notin Sentinels \cup {NilErr}) =>
        /\ call.ret = 500
        /\ Len(w.calls) = 2
        /\ w.calls[1].op = "WriteHeader" /\ w.calls[1].code = 500
        /\ w.calls[2].op = "Write"
        /\ Field(w.calls[2].p, "code") = "500"
        /\ Field(w.calls[2].p, "message") = "Internal Server Error"
        /\ Field(w.calls[2].p, "reason") = call.err.text

C4_Witness ==
    /\ pc = "done" /\ call.fn = "Response"
    /\ call.err.id = "e1" /\ call.response = NilPayload
    /\ call.ret = 500
    /\ Field(w.calls[2].p, "reason") = "boom"

\* C5: every call of Response (and of ResponseErr) writes a status to the sink
\* exactly once and returns the status it wrote; without an error the status
\* is the desired one, a body is written only for a non-nil payload, and the
\* Location header is set exactly when the location is non-empty; with an
\* error the Location header is never set.
C5_OneStatus ==
    (pc = "done" /\ call.fn \in {"Response", "ResponseErr"}) =>
        /\ Len(HeaderCalls(w)) = 1
        /\ HeaderCalls(w)[1].code = call.ret
        /\ call.err = NilErr =>
              /\ call.ret = call.desiredStatus
              /\ Len(BodyCalls(w)) > 0 => call.response # NilPayload
              /\ (w.hdr["Location"] # <<>>) <=> (call.location # "")
              /\ call.location # "" =>
                    HeaderCalls(w)[1].hdr["Location"] = <<call.location>>
        /\ call.err # NilErr => w.hdr["Location"] = <<>>

C5_Witness ==
    /\ pc = "done" /\ call.fn = "Response"
    /\ call.err = NilErr /\ call.response # NilPayload
    /\ call.location = "/items/42" /\ call.ret = 201
    /\ Len(BodyCalls(w)) = 1

\* C7: every response with the JSON error envelope has Content-Type
\* "application/json; charset=utf-8" set when its status is written.
C7_EnvelopeContentType ==
    (pc = "done" /\ Len(w.calls) = 2 /\ w.calls[2].op = "Write"
       /\ Has(w.calls[2].p, "code")) =>
        w.calls[1].hdr["Content-Type"] = JSONContentType

Registered(route) ==
    {e.method : e \in {x \in rr.router : x.kind = "wrapper" /\ x.route = route}}

Listed(value) == SelectSeq(value, LAMBDA t : t # ", ")

\* the header lists OPTIONS once and the methods registered for the route
AllowMethodsExact(h, route) ==
    /\ Len(h["Access-Control-Allow-Methods"]) = 1
    /\ LET l == Listed(h["Access-Control-Allow-Methods"][1])
       IN  /\ Cardinality({i \in 1..Len(l) : l[i] = "OPTIONS"}) = 1
           /\ {l[i] : i \in 1..Len(l)} = {"OPTIONS"} \cup Registered(route)
           /\ Len(l) = 1 + Cardinality(Registered(route))

\* C3: after SetupRouter (no method OPTIONS in routes), for every registered
\* path the options mapping holds exactly the methods registered for the path,
\* none twice; the synthesized OPTIONS handler answers 200 without a body; and
\* Access-Control-Allow-Methods, from it and from every matched request on the
\* path, lists OPTIONS once plus exactly those methods.
C3_OptionsMappings ==
    pc # "new" =>
        \A route \in {e.route : e \in {x \in rr.router : x.kind = "wrapper"}} :
            /\ route \in DOMAIN rr.optionsMappings
            /\ {rr.optionsMappings[route][i] :
                    i \in 1..Len(rr.optionsMappings[route])} = Registered(route)
            /\ Len(rr.optionsMappings[route]) = Cardinality(Registered(route))
            /\ \E e \in rr.router : e.kind = "options" /\ e.route = route
            /\ (cur.route = route /\ cur.kind = "options" /\ pc = "done") =>
                  /\ Len(w.calls) = 1
                  /\ w.calls[1].op = "WriteHeader" /\ w.calls[1].code = 200
                  /\ AllowMethodsExact(w.calls[1].hdr, route)
            /\ (cur.route = route /\ cur.kind = "wrapper" /\ invoked = 1) =>
                  AllowMethodsExact(w.hdr, route)

C3_Witness ==
    /\ pc = "done" /\ cur.kind = "options"
    /\ Len(rr.optionsMappings[cur.route]) = 2
    /\ Len(w.calls) = 1

Strict(m) == m # "" /\ m # ".*"

Rejected == match(cur.route, cur.matcher, req.path) = "false"

Accepted == match(cur.route, cur.matcher, req.path) = "true"

InWrapper == cur.kind = "wrapper" /\ pc # "idle"

\* C6: when the matcher rejects a request dispatched to a wrapper, the handler
\* is not invoked, the response is 400 with the envelope whose reason is
\* "route does not match", and one access-log entry is written, an error, with
\* status 400 and size 0.
C6_Mismatch ==
    (InWrapper /\ Rejected) =>
        /\ pc = "done"
        /\ invoked = 0
        /\ w.lrwCalls = <<>>
        /\ WroteEnvelope(w, 400, RouteDoesNotMatch)
        /\ Len(log) = 1
        /\ log[1].level = "error"
        /\ log[1].code = 400
        /\ log[1].size = 0

C6_Witness ==
    /\ InWrapper /\ Rejected /\ pc = "done"
    /\ cur.matcher = <<"", PatNumeric>> /\ req.path = PathItemsAbc
    /\ Len(log) = 1

STS == "Strict-Transport-Security"

CorsSet(h) ==
    /\ h["Access-Control-Allow-Origin"] = <<"*">>
    /\ h["Access-Control-Allow-Headers"] =
          <<"Origin, X-Requested-With, Content-Type, Accept, X-Session-Token">>
    /\ Len(h["Access-Control-Allow-Methods"]) = 1
    /\ h["X-Content-Type-Options"] = <<"nosniff">>
    /\ h["X-Frame-Options"] = <<"DENY">>
    /\ h["X-XSS-Protection"] = <<"1; mode=block">>

STSValue(tls) == IF tls THEN <<"max-age=31536000; includeSubDomains">> ELSE <<>>

\* C8: for a request dispatched to a wrapper, Strict-Transport-Security is
\* added first when serving over TLS (it is there even when the matcher then
\* rejects or faults), the security/CORS headers are added only after the
\* matcher accepted and before the handler runs (every status a handler writes
\* carries them), the handler is invoked once with the instrumented writer,
\* nothing is logged while it runs, and after it returned there is one
\* non-error log entry with the status and size the writer recorded.
C8_WrapperOrder ==
    InWrapper =>
        /\ w.hdr[STS] = STSValue(rr.tls)
        /\ ~Accepted => (w.hdr["Access-Control-Allow-Origin"] = <<>> /\ invoked = 0)
        /\ Accepted =>
              /\ pc \in {"handler", "done"}
              /\ invoked = 1
              /\ w.wrapped
              /\ Len(w.calls) = Len(w.lrwCalls)
              /\ CorsSet(w.hdr)
              /\ \A i \in 1..Len(w.calls) :
                    w.calls[i].op = "WriteHeader" =>
                        /\ CorsSet(w.calls[i].hdr)
                        /\ w.calls[i].hdr[STS] = STSValue(rr.tls)
              /\ pc = "handler" => log = <<>>
              /\ pc = "done" =>
                    /\ Len(log) = 1
                    /\ log[1].level = "info"
                    /\ log[1].code = Status(w)
                    /\ log[1].size = Size(w)

C8_Witness ==
    /\ InWrapper /\ Accepted /\ pc = "done" /\ rr.tls
    /\ Len(log) = 1 /\ log[1].code = 404 /\ log[1].size > 0

RECURSIVE SumWritten(_)
SumWritten(calls) ==
    IF Len(calls) = 0 THEN 0
    ELSE (IF Head(calls).op = "Write" THEN Head(calls).n ELSE 0)
         + SumWritten(Tail(calls))

LastStatus(calls) ==
    IF Len(HeaderCalls([calls |-> calls])) = 0 THEN 0
    ELSE HeaderCalls([calls |-> calls])[Len(HeaderCalls([calls |-> calls]))].code

\* C9: after any calls of WriteHeader and Write on a LogResponseWriter, each
\* call was forwarded once to the wrapped sink with the same argument, each
\* Write returned what the sink returned, Size() is the sum of the counts the
\* sink returned (those of failed partial writes too) and Status() is the
\* argument of the last WriteHeader, or 0 without one.
C9_LogResponseWriter ==
    w.wrapped =>
        /\ Len(w.calls) = Len(w.lrwCalls)
        /\ \A i \in 1..Len(w.calls) :
              /\ w.calls[i].op = w.lrwCalls[i].op
              /\ w.calls[i].code = w.lrwCalls[i].code
              /\ w.calls[i].p = w.lrwCalls[i].p
              /\ w.calls[i].n = w.lrwCalls[i].n
              /\ w.calls[i].err = w.lrwCalls[i].err
        /\ Size(w) = SumWritten(w.calls)
        /\ Status(w) = LastStatus(w.calls)

C9_Witness ==
    /\ w.wrapped /\ pc = "handler"
    /\ Status(w) = 0 /\ Size(w) = 1
    /\ \E i \in 1..Len(w.calls) :
          w.calls[i].op = "Write" /\ w.calls[i].err /\ Len(w.calls[i].p) = 2

Parts == Split(req.path, "/")

\* C10 as stated: a strict pattern at an index whose part is missing makes
\* match fault.
C10_Original ==
    (InWrapper /\ \E k \in 1..Len(cur.matcher) :
                      Strict(cur.matcher[k]) /\ k + 1 > Len(Parts)) =>
        pc = "fault"

PatternPasses(k) ==
    /\ k + 1 <= Len(Parts)
    /\ ~MatchString(cur.matcher[k], Parts[k + 1]).err
    /\ MatchString(cur.matcher[k], Parts[k + 1]).matched

\* C10, amended: match faults exactly when a strict pattern has no part and
\* every strict pattern before it passed (an earlier failing pattern returns
\* no-match first); a matcher without strict patterns accepts without fault.
C10_FaultUnlessRejectedEarlier ==
    InWrapper =>
        /\ (pc = "fault") <=>
              \E k \in 1..Len(cur.matcher) :
                  /\ Strict(cur.matcher[k])
                  /\ k + 1 > Len(Parts)
                  /\ \A j \in 1..(k - 1) : Strict(cur.matcher[j]) => PatternPasses(j)
        /\ (\A k \in 1..Len(cur.matcher) : ~Strict(cur.matcher[k])) =>
              (pc \in {"handler", "done"} /\ invoked = 1)

C10_Witness ==
    /\ InWrapper /\ pc = "fault"
    /\ cur.matcher = <<"", "", PatNumeric>> /\ req.path = PathItems42

ScenarioRoute == cur.method = "GET" /\ cur.route = RouteItemsId

HandlerStatusCarried ==
    /\ pc \in {"handler", "done"}
    /\ invoked = 1
    /\ Len(w.calls) = Len(w.lrwCalls)
    /\ \A i \in 1..Len(w.calls) : w.calls[i].code = w.lrwCalls[i].code
    /\ pc = "done" => (Len(log) = 1 /\ log[1].code = LastStatus(w.lrwCalls))

====
